---- MODULE Spec2Model ----
(***************************************************************************)
(* Leaky integrate-and-fire neuron exercise (SNN-Exercise-1.py).           *)
(*                                                                         *)
(* The script is five tasks that share one set of module-level variables   *)
(* (I_syn, t, u, t_i, u_i, t_spike, n_spike, ...).  Every task contains    *)
(* its own copy of the same simulation loop                                *)
(*     while t <= T:  Euler step; store u; spike check/reset; t += dt      *)
(* wrapped in the task's own sweep or search loop.                         *)
(*                                                                         *)
(* Units.  Time is counted in ticks of dt, so t += dt is t + 1 and the     *)
(* repeated addition is exact.  Currents are whole picoamps.  Potentials   *)
(* are whole multiples of 5 uV, the unit in which R * (1 pA) = 95 uV is    *)
(* the integer 19, so u_rest = -65 mV is -13000 and u_thres = -50 mV is    *)
(* -10000.  The float division by tau_m is the floor division at that      *)
(* resolution.                                                             *)
(***************************************************************************)
EXTENDS Integers, Sequences, FiniteSets

\* ---------------------------------------------------------------- bounds
\* Number of timesteps per simulated second (1/dt; the script has 10^5).
TicksPerSecond == 100

\* The counter of runs per sweep value stops counting here.
RunCap == 3

\* Inputs the tasks are started with: the script's own values and others.
Task1Currents == {50, 250, 600}
Task2Floors   == {50, 150, 200}
Task2Steps    == {1, 5}
Task3Lists    == { <<200, 250, 400, 600>>, <<50>> }
Task5Lists    == { <<200, 400, 600>>, <<160>>, <<100>> }

\* ------------------------------------------------------------ parameters
R        == 19
u_rest   == -13000
u_reset  == -13000
u_thres  == -10000
tau_m    == (30 * TicksPerSecond) \div 1000

\* Horizons of the simulation loops, in ticks: 1 s and 0.15 s.
T1 == TicksPerSecond
T5 == (15 * TicksPerSecond) \div 100

\* Task 4 sweeps range(0, 601, 1).
SweepEnd == 601

\* Task 5 adds 1e-1 s to the cutoff before every run.
StimStep == TicksPerSecond \div 10

\* A cutoff beyond the horizon is never reached by t; all such cutoffs are
\* represented by this one.
MaxCutoff == T5 + StimStep

VARIABLES pc, task, I_syn, n_id, t_i, u_i, t_spike, n_spike, t, u,
          currents, index, i, step_I, t_stimuli, t_st, freq_i, I_syn_i,
          out, I_used, runs

vars == <<pc, task, I_syn, n_id, t_i, u_i, t_spike, n_spike, t, u,
          currents, index, i, step_I, t_stimuli, t_st, freq_i, I_syn_i,
          out, I_used, runs>>

sweepVars == <<currents, index, i, step_I, t_stimuli, t_st, freq_i, I_syn_i, out>>

\* ------------------------------------------------------------- operators
Last(s) == s[Len(s)]

Horizon(k) == IF k = 5 THEN T5 ELSE T1

\* while t <= T
LoopCond_Strict(tt, T) == tt < T
LoopCond_Over(tt, T) == tt <= T + 1
LoopCond(tt, T) == tt <= T

\* du_dt = (-(u - u_rest) + R * I_syn) / tau_m ; u += du_dt * dt   (dt = 1 tick)
Euler(uu, I) == uu + ((-(uu - u_rest) + R * I) \div tau_m)

\* if u >= u_thres
Fires_Below(uu) == uu <= u_thres
Fires(uu) == uu >= u_thres

\* u = u_reset inside the spike branch
AfterSpike_NoReset(uu) == uu
AfterSpike(uu) == u_reset

\* u_i.append(u) stands between the Euler step and the spike check
StoredSample_AfterCheck(integrated, checked) == checked
StoredSample(integrated, checked) == integrated

\* if t >= t_stimuli: I_syn = 0
Cutoff(I, tt, cut) == IF tt >= cut THEN 0 ELSE I

\* t_stimuli += 1e-1
NextCutoff(cut) == IF cut + StimStep > MaxCutoff THEN MaxCutoff ELSE cut + StimStep

CountRun(n) == IF n < RunCap THEN n + 1 ELSE RunCap

\* The loop body shared by every task, run with current I.
Body(I) ==
    LET integrated == Euler(u, I)
        checked    == IF Fires(integrated) THEN AfterSpike(integrated) ELSE integrated
    IN  /\ u_i' = Append(u_i, StoredSample(integrated, checked))
        /\ t_spike' = IF Fires(integrated) THEN Append(t_spike, t) ELSE t_spike
        /\ n_spike' = IF Fires(integrated) THEN Append(n_spike, n_id) ELSE n_spike
        /\ u' = checked
        /\ t_i' = Append(t_i, t)
        /\ t' = t + 1
        /\ I_used' = I

\* ------------------------------------------------------------------ Init
Init ==
    /\ pc = "idle"
    /\ task = 0
    /\ I_syn = 0
    /\ n_id = 0
    /\ t_i = <<>>
    /\ u_i = <<>>
    /\ t_spike = <<>>
    /\ n_spike = <<>>
    /\ t = 0
    /\ u = u_rest
    /\ currents = <<>>
    /\ index = 0
    /\ i = 0
    /\ step_I = 0
    /\ t_stimuli = 0
    /\ t_st = <<>>
    /\ freq_i = <<>>
    /\ I_syn_i = <<>>
    /\ out = <<>>
    /\ I_used = 0
    /\ runs = 0

\* ---------------------------------------------------------------- Task 1
T1Start(I) ==
    /\ pc = "idle"
    /\ task' = 1
    /\ I_syn' = I
    /\ n_id' = 0
    /\ t_i' = <<>>
    /\ u_i' = <<>>
    /\ t_spike' = <<>>
    /\ n_spike' = <<>>
    /\ t' = 0
    /\ u' = u_rest
    /\ runs' = 1
    /\ pc' = "step"
    /\ UNCHANGED <<sweepVars, I_used>>

T1Step ==
    /\ pc = "step"
    /\ task = 1
    /\ LoopCond(t, T1)
    /\ Body(I_syn)
    /\ UNCHANGED <<pc, task, I_syn, n_id, sweepVars, runs>>

T1End ==
    /\ pc = "step"
    /\ task = 1
    /\ ~LoopCond(t, T1)
    /\ pc' = "done"
    /\ UNCHANGED <<task, I_syn, n_id, t_i, u_i, t_spike, n_spike, t, u,
                   sweepVars, I_used, runs>>

\* ---------------------------------------------------------------- Task 2
T2Start(floor, step) ==
    /\ pc = "idle"
    /\ task' = 2
    /\ t_spike' = <<>>
    /\ I_syn' = floor
    /\ step_I' = step
    /\ runs' = 0
    /\ pc' = "t2_while"
    /\ UNCHANGED <<n_id, t_i, u_i, n_spike, t, u, currents, index, i,
                   t_stimuli, t_st, freq_i, I_syn_i, out, I_used>>

T2BeginRun ==
    /\ pc = "t2_while"
    /\ t_spike = <<>>
    /\ n_id' = 0
    /\ t_i' = <<>>
    /\ u_i' = <<>>
    /\ n_spike' = <<>>
    /\ t' = 0
    /\ u' = u_rest
    /\ runs' = CountRun(runs)
    /\ pc' = "step"
    /\ UNCHANGED <<task, I_syn, t_spike, sweepVars, I_used>>

T2Step ==
    /\ pc = "step"
    /\ task = 2
    /\ LoopCond(t, T1)
    /\ Body(I_syn)
    /\ UNCHANGED <<pc, task, I_syn, n_id, sweepVars, runs>>

T2EndRun ==
    /\ pc = "step"
    /\ task = 2
    /\ ~LoopCond(t, T1)
    /\ I_syn' = I_syn + step_I
    /\ pc' = "t2_while"
    /\ UNCHANGED <<task, n_id, t_i, u_i, t_spike, n_spike, t, u,
                   sweepVars, I_used, runs>>

T2Exit ==
    /\ pc = "t2_while"
    /\ t_spike # <<>>
    /\ out' = Append(out, I_syn)
    /\ pc' = "done"
    /\ UNCHANGED <<task, I_syn, n_id, t_i, u_i, t_spike, n_spike, t, u,
                   currents, index, i, step_I, t_stimuli, t_st, freq_i,
                   I_syn_i, I_used, runs>>

\* ---------------------------------------------------------------- Task 3
T3Start(cs) ==
    /\ pc = "idle"
    /\ task' = 3
    /\ currents' = cs
    /\ index' = 0
    /\ pc' = "t3_for"
    /\ UNCHANGED <<I_syn, n_id, t_i, u_i, t_spike, n_spike, t, u, i, step_I,
                   t_stimuli, t_st, freq_i, I_syn_i, out, I_used, runs>>

T3Next ==
    /\ pc = "t3_for"
    /\ index < Len(currents)
    /\ i' = currents[index + 1]
    /\ I_syn' = currents[index + 1]
    /\ t_spike' = <<>>
    /\ runs' = 0
    /\ pc' = "t3_while"
    /\ UNCHANGED <<task, n_id, t_i, u_i, n_spike, t, u, currents, index,
                   step_I, t_stimuli, t_st, freq_i, I_syn_i, out, I_used>>

T3Done ==
    /\ pc = "t3_for"
    /\ index >= Len(currents)
    /\ pc' = "done"
    /\ UNCHANGED <<task, I_syn, n_id, t_i, u_i, t_spike, n_spike, t, u,
                   sweepVars, I_used, runs>>

T3BeginRun ==
    /\ pc = "t3_while"
    /\ t_spike = <<>>
    /\ n_id' = 0
    /\ t_i' = <<>>
    /\ u_i' = <<>>
    /\ n_spike' = <<>>
    /\ t' = 0
    /\ u' = u_rest
    /\ runs' = CountRun(runs)
    /\ pc' = "step"
    /\ UNCHANGED <<task, I_syn, t_spike, sweepVars, I_used>>

T3Step ==
    /\ pc = "step"
    /\ task = 3
    /\ LoopCond(t, T1)
    /\ Body(I_syn)
    /\ UNCHANGED <<pc, task, I_syn, n_id, sweepVars, runs>>

T3EndRun ==
    /\ pc = "step"
    /\ task = 3
    /\ ~LoopCond(t, T1)
    /\ pc' = "t3_while"
    /\ UNCHANGED <<task, I_syn, n_id, t_i, u_i, t_spike, n_spike, t, u,
                   sweepVars, I_used, runs>>

T3Report ==
    /\ pc = "t3_while"
    /\ t_spike # <<>>
    /\ out' = Append(out, <<Len(t_spike), I_syn>>)
    /\ index' = index + 1
    /\ pc' = "t3_for"
    /\ UNCHANGED <<task, I_syn, n_id, t_i, u_i, t_spike, n_spike, t, u,
                   currents, i, step_I, t_stimuli, t_st, freq_i, I_syn_i,
                   I_used, runs>>

\* ---------------------------------------------------------------- Task 4
T4Start ==
    /\ pc = "idle"
    /\ task' = 4
    /\ I_syn_i' = <<>>
    /\ freq_i' = <<>>
    /\ i' = 0
    /\ pc' = "t4_for"
    /\ UNCHANGED <<I_syn, n_id, t_i, u_i, t_spike, n_spike, t, u, currents,
                   index, step_I, t_stimuli, t_st, out, I_used, runs>>

T4Next ==
    /\ pc = "t4_for"
    /\ i < SweepEnd
    /\ I_syn' = i
    /\ n_id' = 0
    /\ t_i' = <<>>
    /\ u_i' = <<>>
    /\ t_spike' = <<>>
    /\ n_spike' = <<>>
    /\ t' = 0
    /\ u' = u_rest
    /\ runs' = 1
    /\ pc' = "step"
    /\ UNCHANGED <<task, sweepVars, I_used>>

T4Done ==
    /\ pc = "t4_for"
    /\ i >= SweepEnd
    /\ pc' = "done"
    /\ UNCHANGED <<task, I_syn, n_id, t_i, u_i, t_spike, n_spike, t, u,
                   sweepVars, I_used, runs>>

T4Step ==
    /\ pc = "step"
    /\ task = 4
    /\ LoopCond(t, T1)
    /\ Body(I_syn)
    /\ UNCHANGED <<pc, task, I_syn, n_id, sweepVars, runs>>

T4EndRun ==
    /\ pc = "step"
    /\ task = 4
    /\ ~LoopCond(t, T1)
    /\ freq_i' = Append(freq_i, Len(t_spike))
    /\ I_syn_i' = Append(I_syn_i, I_syn)
    /\ i' = i + 1
    /\ pc' = "t4_for"
    /\ UNCHANGED <<task, I_syn, n_id, t_i, u_i, t_spike, n_spike, t, u,
                   currents, index, step_I, t_stimuli, t_st, out, I_used, runs>>

\* ---------------------------------------------------------------- Task 5
T5Start(cs) ==
    /\ pc = "idle"
    /\ task' = 5
    /\ t_st' = <<>>
    /\ currents' = cs
    /\ index' = 0
    /\ pc' = "t5_for"
    /\ UNCHANGED <<I_syn, n_id, t_i, u_i, t_spike, n_spike, t, u, i, step_I,
                   t_stimuli, freq_i, I_syn_i, out, I_used, runs>>

T5Next ==
    /\ pc = "t5_for"
    /\ index < Len(currents)
    /\ i' = currents[index + 1]
    /\ I_syn' = currents[index + 1]
    /\ n_spike' = <<>>
    /\ t_stimuli' = 0
    /\ runs' = 0
    /\ pc' = "t5_while"
    /\ UNCHANGED <<task, n_id, t_i, u_i, t_spike, t, u, currents, index,
                   step_I, t_st, freq_i, I_syn_i, out, I_used>>

T5Done ==
    /\ pc = "t5_for"
    /\ index >= Len(currents)
    /\ pc' = "done"
    /\ UNCHANGED <<task, I_syn, n_id, t_i, u_i, t_spike, n_spike, t, u,
                   sweepVars, I_used, runs>>

T5BeginRun ==
    /\ pc = "t5_while"
    /\ Len(n_spike) = 0
    /\ t_stimuli' = NextCutoff(t_stimuli)
    /\ n_id' = 0
    /\ t_i' = <<>>
    /\ u_i' = <<>>
    /\ t_spike' = <<>>
    /\ t' = 0
    /\ u' = u_rest
    /\ runs' = CountRun(runs)
    /\ pc' = "step"
    /\ UNCHANGED <<task, I_syn, n_spike, currents, index, i, step_I, t_st,
                   freq_i, I_syn_i, out, I_used>>

T5Step ==
    /\ pc = "step"
    /\ task = 5
    /\ LoopCond(t, T5)
    /\ I_syn' = Cutoff(I_syn, t, t_stimuli)
    /\ Body(I_syn')
    /\ IF Fires(Euler(u, I_syn')) /\ Len(t_st) < index + 1
          THEN /\ t_st' = Append(t_st, t)
               /\ out' = Append(out, <<i, t>>)
          ELSE UNCHANGED <<t_st, out>>
    /\ UNCHANGED <<pc, task, n_id, currents, index, i, step_I, t_stimuli,
                   freq_i, I_syn_i, runs>>

T5EndRun ==
    /\ pc = "step"
    /\ task = 5
    /\ ~LoopCond(t, T5)
    /\ pc' = "t5_while"
    /\ UNCHANGED <<task, I_syn, n_id, t_i, u_i, t_spike, n_spike, t, u,
                   sweepVars, I_used, runs>>

T5NextCurrent ==
    /\ pc = "t5_while"
    /\ Len(n_spike) # 0
    /\ index' = index + 1
    /\ pc' = "t5_for"
    /\ UNCHANGED <<task, I_syn, n_id, t_i, u_i, t_spike, n_spike, t, u,
                   currents, i, step_I, t_stimuli, t_st, freq_i, I_syn_i,
                   out, I_used, runs>>

\* ------------------------------------------------------------------ Next
Next ==
    \/ \E I \in Task1Currents : T1Start(I)
    \/ T1Step
    \/ T1End
    \/ \E floor \in Task2Floors, step \in Task2Steps : T2Start(floor, step)
    \/ T2BeginRun
    \/ T2Step
    \/ T2EndRun
    \/ T2Exit
    \/ \E cs \in Task3Lists : T3Start(cs)
    \/ T3Next
    \/ T3Done
    \/ T3BeginRun
    \/ T3Step
    \/ T3EndRun
    \/ T3Report
    \/ T4Start
    \/ T4Next
    \/ T4Done
    \/ T4Step
    \/ T4EndRun
    \/ \E cs \in Task5Lists : T5Start(cs)
    \/ T5Next
    \/ T5Done
    \/ T5BeginRun
    \/ T5Step
    \/ T5EndRun
    \/ T5NextCurrent

Spec == Init /\ [][Next]_vars

\* The script is one sequential thread: whenever a statement is enabled it
\* is eventually executed.
LiveSpec == Init /\ [][Next]_vars /\ WF_vars(Next)

\* ---------------------------------------------------------------- claims
\* Positions at which the most recent simulation run has run to its end.
RunFinished == pc \notin {"idle", "step"} /\ runs > 0

\* C1: the rheobase search reports the current that was used in the first
\* run that produced a spike.
C1_ReportsFirstSpikingCurrent ==
    (task = 2 /\ pc = "done") => out = <<I_used>>

\* C2: the duration search reports the cutoff t_stimuli of the first run
\* that produced a spike, not any other time of that run.
C2_ReportsCutoff ==
    (task = 5 /\ Len(t_st) = index + 1) => Last(t_st) = t_stimuli

\* C3: in every run of the duration search the current used by the Euler
\* step at time t is the amplitude for t < t_cutoff and 0 for t >= t_cutoff.
C3_StatelessStimulus ==
    (task = 5 /\ pc = "step" /\ Len(t_i) > 0)
        => I_used = (IF Last(t_i) < t_stimuli THEN i ELSE 0)

\* C4: every timestep makes one threshold check: a potential that reached
\* u_thres appends exactly one spike (t, n_id) and is replaced by u_reset,
\* any other potential appends nothing and is kept; so the spikes never
\* outnumber the steps.
C4_OneCheckPerStep ==
    /\ [][ Len(t_i') = Len(t_i) + 1 =>
             LET integrated == Euler(u, I_used')
             IN  IF integrated >= u_thres
                    THEN /\ t_spike' = Append(t_spike, t)
                         /\ n_spike' = Append(n_spike, n_id)
                         /\ u' = u_reset
                    ELSE /\ t_spike' = t_spike
                         /\ n_spike' = n_spike
                         /\ u' = integrated ]_vars
    /\ [](Len(t_spike) <= Len(t_i))

\* A step whose potential overshot the threshold left one spike and u_reset.
C4_Witness ==
    /\ pc = "step"
    /\ Len(t_spike) >= 2
    /\ Last(t_spike) = Last(t_i)
    /\ Last(u_i) > u_thres
    /\ u = u_reset

C6_OneRunPerCurrent ==
    task = 3 => runs <= 1

\* C7: every search (rheobase, minimum stimulus duration) comes to an end.
C7_SearchEnds ==
    (task \in {2, 5}) ~> (pc = "done")

\* C8: the spike counts recorded by the f-I sweep are non-decreasing in the
\* swept current.
C8_CountMonotoneInCurrent ==
    (task = 4 /\ pc \in {"t4_for", "done"}) =>
        /\ Len(freq_i) = Len(I_syn_i)
        /\ \A a \in 1..Len(freq_i) : \A b \in a..Len(freq_i) :
              /\ I_syn_i[a] <= I_syn_i[b]
              /\ freq_i[a] <= freq_i[b]

\* The sweep has gone from no spike to strictly growing counts.
C8_Witness ==
    /\ task = 4
    /\ pc = "t4_for"
    /\ Len(freq_i) = 201
    /\ freq_i[1] = 0
    /\ freq_i[159] > 0
    /\ freq_i[201] > freq_i[159]

\* C9 as stated: the stored sample is the potential after the threshold
\* check, so a spiking step stores u_reset and no sample reaches u_thres.
C9_SampleAfterReset ==
    (pc = "step" /\ Len(u_i) > 0) =>
        /\ Last(u_i) = u
        /\ \A k \in 1..Len(u_i) : u_i[k] < u_thres

\* C9 amended: the stored sample is the integrated potential before the
\* threshold check; it is >= u_thres exactly in the steps that spiked, and
\* there the state u is u_reset afterwards.
C9_SampleBeforeCheck ==
    (pc = "step" /\ Len(u_i) > 0) =>
        /\ Len(u_i) = Len(t_i)
        /\ IF Last(u_i) >= u_thres
              THEN /\ u = u_reset
                   /\ Len(t_spike) > 0
                   /\ Last(t_spike) = Last(t_i)
              ELSE /\ u = Last(u_i)
                   /\ (Len(t_spike) > 0 => Last(t_spike) # Last(t_i))

C9_Witness ==
    /\ pc = "step"
    /\ Len(t_spike) > 0
    /\ Last(t_spike) = Last(t_i)
    /\ Last(u_i) >= u_thres
    /\ u = u_reset
    /\ u # Last(u_i)

\* C10: during a run the spike times are strictly increasing step times in
\* [0, T] at which the integrated potential reached the threshold, there
\* are as many neuron ids as spike times, and both lists only grow.
C10_SpikeLists ==
    /\ [](pc = "step" =>
            /\ Len(t_spike) = Len(n_spike)
            /\ \A j \in 1..Len(t_spike) :
                  /\ t_spike[j] \in 0..Horizon(task)
                  /\ t_spike[j] + 1 <= Len(t_i)
                  /\ t_i[t_spike[j] + 1] = t_spike[j]
                  /\ u_i[t_spike[j] + 1] >= u_thres
                  /\ (j > 1 => t_spike[j - 1] < t_spike[j]))
    /\ [][ (pc = "step" /\ pc' = "step") =>
             /\ Len(t_spike') >= Len(t_spike)
             /\ SubSeq(t_spike', 1, Len(t_spike)) = t_spike
             /\ Len(n_spike') >= Len(n_spike)
             /\ SubSeq(n_spike', 1, Len(n_spike)) = n_spike ]_vars

C10_Witness ==
    /\ pc = "step"
    /\ Len(t_spike) >= 3
    /\ Len(n_spike) = Len(t_spike)
    /\ t_spike[1] > 0

====
